---- MODULE Spec2Model ----
(***************************************************************************)
(* Model of the photom ROI pattern engine of coPylot:                      *)
(*   copylot/assemblies/photom/utils/pattern_tracing.py  (ShapeTrace)      *)
(*   copylot/assemblies/photom/gui/windows.py  (PhotomApp and              *)
(*                                              LaserMarkerWindow)         *)
(* Points are pairs <<x, y>> of integers (QPoint).  An optional value      *)
(* (Python None or a value) is the empty tuple or a one-element tuple.     *)
(***************************************************************************)
EXTENDS Integers, Sequences, FiniteSets, TLC

\* ------------------------------------------------------------------------
\* Bounds of the model
\* ------------------------------------------------------------------------
\* upper bound on the iterations of the breadth-first loop that are unrolled
MaxIter == 512
\* number of shapes drawn in one session
MaxShapes == 2
\* the spiral turn counts from this one on are held as one value
MaxTurns == 8

\* ------------------------------------------------------------------------
\* Python values
\* ------------------------------------------------------------------------
None == << >>
Some(v) == << v >>
IsNone(o) == o = << >>
Val(o) == o[1]

Abs(a) == IF a < 0 THEN -a ELSE a
\* the sequence s with every element evaluated
Evaluated(s) == s \o << >>
MinOf(S) == CHOOSE m \in S : \A e \in S : m <= e
MaxOf(S) == CHOOSE m \in S : \A e \in S : m >= e

\* Python round(s / 2) for an integer s: round half to even.
RoundHalf(s) ==
    IF s % 2 = 0 THEN s \div 2
    ELSE LET lo == (s - 1) \div 2
         IN  IF lo % 2 = 0 THEN lo ELSE lo + 1

\* ------------------------------------------------------------------------
\* QPolygon geometry used by ShapeTrace
\* ------------------------------------------------------------------------
\* QPolygon.boundingRect(): the QRect spanned by the extreme coordinates;
\* right() and bottom() are the largest coordinates, width() and height()
\* count pixels.  The rectangle of a polygon without points is the null
\* QRect: left 0, top 0, right -1, bottom -1.
boundingRect(border) ==
    LET xs == { border[i][1] : i \in 1..Len(border) }
        ys == { border[i][2] : i \in 1..Len(border) }
    IN  IF Len(border) = 0
        THEN [ left |-> 0, right |-> -1, top |-> 0, bottom |-> -1,
               width |-> 0, height |-> 0 ]
        ELSE [ left   |-> MinOf(xs), right  |-> MaxOf(xs),
               top    |-> MinOf(ys), bottom |-> MaxOf(ys),
               width  |-> MaxOf(xs) - MinOf(xs) + 1,
               height |-> MaxOf(ys) - MinOf(ys) + 1 ]

\* Contribution of the edge p1 -> p2 to the winding number of pos: horizontal
\* edges are ignored; an edge counts when pos.y lies in [low y, high y) and
\* the edge crosses the scan line at or to the left of pos.x.  The crossing
\* x1 + (x2 - x1) / (y2 - y1) * (y - y1) <= pos.x is compared exactly.
\* the variant that also counts an edge at its upper end, pos.y = high y
isect_line_closed(p1, p2, pos) ==
    IF p1[2] = p2[2] THEN 0
    ELSE LET up  == p1[2] < p2[2]
             x1  == IF up THEN p1[1] ELSE p2[1]
             y1  == IF up THEN p1[2] ELSE p2[2]
             x2  == IF up THEN p2[1] ELSE p1[1]
             y2  == IF up THEN p2[2] ELSE p1[2]
             dir == IF up THEN 1 ELSE -1
         IN  IF /\ pos[2] >= y1
                /\ pos[2] <= y2
                /\ (x2 - x1) * (pos[2] - y1) <= (pos[1] - x1) * (y2 - y1)
             THEN dir ELSE 0

isect_line(p1, p2, pos) ==
    IF p1[2] = p2[2] THEN 0
    ELSE LET up  == p1[2] < p2[2]
             x1  == IF up THEN p1[1] ELSE p2[1]
             y1  == IF up THEN p1[2] ELSE p2[2]
             x2  == IF up THEN p2[1] ELSE p1[1]
             y2  == IF up THEN p2[2] ELSE p1[2]
             dir == IF up THEN 1 ELSE -1
         IN  IF /\ pos[2] >= y1
                /\ pos[2] < y2
                /\ (x2 - x1) * (pos[2] - y1) <= (pos[1] - x1) * (y2 - y1)
             THEN dir ELSE 0

RECURSIVE winding(_, _, _)
winding(border, pos, i) ==
    IF i >= Len(border) THEN 0
    ELSE isect_line(border[i], border[i + 1], pos) + winding(border, pos, i + 1)

\* the variant that takes every point as inside
containsPoint_everywhere(border, pt) == TRUE

\* QPolygon.containsPoint(pt, Qt.OddEvenFill)
containsPoint(border, pt) ==
    IF Len(border) = 0 THEN FALSE
    ELSE LET closing == IF border[Len(border)] # border[1]
                        THEN isect_line(border[Len(border)], border[1], pt)
                        ELSE 0
         IN  Abs(winding(border, pt, 1) + closing) % 2 # 0

\* ------------------------------------------------------------------------
\* ShapeTrace
\* ------------------------------------------------------------------------
\* self.gap
gap == 5

\* ShapeTrace.__init__
ShapeTrace(border_points) ==
    [ border_points   |-> border_points,
      ablation_points |-> << >>,
      pattern_points  |-> << >> ]

\* the variant that replaces negative spacings only
ClampSpacing_negative(spacing) == IF spacing < 0 THEN gap ELSE spacing

\* the two clamps at the head of _pattern_bidirectional
ClampSpacing(spacing) == IF spacing < gap THEN gap ELSE spacing

\* the variant that enqueues a neighbour inside the polygon whether or not it
\* was visited
VisitNeighbour_revisit(border, st, curr, d) ==
    LET new == << curr[1] + d[1], curr[2] + d[2] >>
    IN  IF containsPoint(border, new)
        THEN [st EXCEPT !.queue = Append(@, new), !.visited = @ \cup {new}]
        ELSE st

\* one pass of the inner for loop: the neighbour in direction d is enqueued
\* and marked when it is inside the polygon and not yet visited
VisitNeighbour(border, st, curr, d) ==
    LET new == << curr[1] + d[1], curr[2] + d[2] >>
    IN  IF containsPoint(border, new) /\ new \notin st.visited
        THEN [st EXCEPT !.queue = Append(@, new), !.visited = @ \cup {new}]
        ELSE st

\* the variant that compares the length with <=
BfsContinue_inclusive(st, num_points) ==
    /\ st.queue # << >>
    /\ (IsNone(num_points) \/ Len(st.abl) <= Val(num_points))

\* loop condition of the while loop
BfsContinue(st, num_points) ==
    /\ st.queue # << >>
    /\ (IsNone(num_points) \/ Len(st.abl) < Val(num_points))

\* the variant that takes the point enqueued last (pop in place of popleft)
BfsIter_pop(border, dirs, num_points, st) ==
    IF ~BfsContinue(st, num_points) THEN st
    ELSE LET curr == st.queue[Len(st.queue)]
             s0 == [st EXCEPT !.queue = SubSeq(@, 1, Len(@) - 1),
                              !.abl = Append(@, curr)]
             s1 == VisitNeighbour(border, s0, curr, dirs[1])
             s2 == VisitNeighbour(border, s1, curr, dirs[2])
             s3 == VisitNeighbour(border, s2, curr, dirs[3])
         IN  VisitNeighbour(border, s3, curr, dirs[4])

\* one iteration of the while loop (the identity once the loop has ended)
BfsIter(border, dirs, num_points, st) ==
    IF ~BfsContinue(st, num_points) THEN st
    ELSE LET curr == Head(st.queue)
             s0 == [st EXCEPT !.queue = Tail(@), !.abl = Append(@, curr)]
             s1 == VisitNeighbour(border, s0, curr, dirs[1])
             s2 == VisitNeighbour(border, s1, curr, dirs[2])
             s3 == VisitNeighbour(border, s2, curr, dirs[3])
         IN  VisitNeighbour(border, s3, curr, dirs[4])

\* the while loop, unrolled to at most k iterations; the first half is
\* evaluated before the second half starts from its result
RECURSIVE BfsRun(_, _, _, _, _)
BfsRun(border, dirs, num_points, st, k) ==
    IF k = 0 THEN st
    ELSE IF k = 1 THEN BfsIter(border, dirs, num_points, st)
    ELSE LET half == BfsRun(border, dirs, num_points, st, k \div 2)
         IN  IF ~BfsContinue(half, num_points) THEN half
             ELSE BfsRun(border, dirs, num_points, half, k - (k \div 2))

\* center_x, center_y: the rounded centre of the bounding rectangle
Center(border) ==
    LET r == boundingRect(border)
    IN  << RoundHalf(r.left + r.right), RoundHalf(r.top + r.bottom) >>

\* ShapeTrace._pattern_bidirectional: the shape after the call and the
\* warnings it logged
pattern_bidirectional(shape, vertical_spacing, horizontal_spacing, num_points) ==
    LET hs == ClampSpacing(horizontal_spacing)
        vs == ClampSpacing(vertical_spacing)
        w1 == IF horizontal_spacing < gap THEN << "horizontal spacing" >> ELSE << >>
        w2 == IF vertical_spacing < gap THEN << "vertical spacing" >> ELSE << >>
        center == Center(shape.border_points)
        dirs == << <<0, -vs>>, <<hs, 0>>, <<0, vs>>, <<-hs, 0>> >>
        st0 == [ queue |-> << center >>, visited |-> { center },
                 abl |-> shape.ablation_points ]
        st  == BfsRun(shape.border_points, dirs, num_points, st0, MaxIter)
        empty == st.abl = << >>
    IN  [ shape    |-> [shape EXCEPT !.ablation_points =
                            IF empty THEN << center >> ELSE st.abl],
          warnings |-> w1 \o w2 \o (IF empty THEN << "spacing too large" >> ELSE << >>),
          finished |-> ~BfsContinue(st, num_points) ]


\* ------------------------------------------------------------------------
\* ShapeTrace._pattern_spiral
\* ------------------------------------------------------------------------
\* number of samples of np.linspace(0, num_turns * np.pi, 1000)
NumSamples == 1000
\* Floating point values are held in fixed point: cosines and sines in units
\* of 1 / TrigScale, normalised coordinates in hundredths of a pixel and arc
\* lengths in thousandths of a pixel.
TrigScale == 10000
\* pi in units of 1 / 100000
PiScaled == 314159

\* a / b rounded to the nearest integer, b > 0
RDiv(a, b) == (2 * a + b) \div (2 * b)

\* np.cos and np.sin of pi * m / d for an angle in the first quadrant
TaylorCos(m, d) ==
    LET S  == TrigScale
        t  == RDiv(PiScaled * m, 10 * d)
        t2 == RDiv(t * t, S)
        h5 == S - RDiv(t2, 90)
        h4 == S - RDiv(t2 * h5, 56 * S)
        h3 == S - RDiv(t2 * h4, 30 * S)
        h2 == S - RDiv(t2 * h3, 12 * S)
    IN  S - RDiv(t2 * h2, 2 * S)

TaylorSin(m, d) ==
    LET S  == TrigScale
        t  == RDiv(PiScaled * m, 10 * d)
        t2 == RDiv(t * t, S)
        h5 == S - RDiv(t2, 110)
        h4 == S - RDiv(t2 * h5, 72 * S)
        h3 == S - RDiv(t2 * h4, 42 * S)
        h2 == S - RDiv(t2 * h3, 20 * S)
        h1 == S - RDiv(t2 * h2, 6 * S)
    IN  RDiv(t * h1, S)

\* np.cos and np.sin of pi * k / d for any k >= 0
Cos(k, d) ==
    LET k1 == k % (2 * d)
        k2 == IF k1 > d THEN 2 * d - k1 ELSE k1
    IN  IF 2 * k2 <= d THEN TaylorCos(k2, d) ELSE - TaylorCos(d - k2, d)

Sin(k, d) ==
    LET k1 == k % (2 * d)
        k2 == IF k1 > d THEN k1 - d ELSE k1
        m  == IF 2 * k2 <= d THEN k2 ELSE d - k2
    IN  IF k1 > d THEN - TaylorSin(m, d) ELSE TaylorSin(m, d)

\* np.sqrt, rounded to the nearest integer
RECURSIVE SqrtSearch(_, _, _)
SqrtSearch(n, lo, hi) ==
    IF lo >= hi THEN lo
    ELSE LET mid == (lo + hi + 1) \div 2
         IN  IF mid * mid <= n THEN SqrtSearch(n, mid, hi)
             ELSE SqrtSearch(n, lo, mid - 1)

Sqrt(n) ==
    LET r == SqrtSearch(n, 0, 46340)
    IN  IF n - r * r > r THEN r + 1 ELSE r

RECURSIVE SumRange(_, _, _)
SumRange(f, lo, hi) ==
    IF lo > hi THEN 0
    ELSE IF lo = hi THEN f[lo]
    ELSE LET mid == (lo + hi) \div 2
         IN  SumRange(f, lo, mid) + SumRange(f, mid + 1, hi)

\* (v - v.min()) / (v.max() - v.min()) * size, in hundredths
Normalize(v, lo, hi, size) ==
    LET num == (v - lo) * size
        q   == num \div (hi - lo)
        r   == num % (hi - lo)
    IN  q * 100 + (r * 100) \div (hi - lo)

\* np.sqrt(np.diff(x) ** 2 + np.diff(y) ** 2), in thousandths
Segments(x, y, count) ==
    Evaluated([ i \in 1..(count - 1) |->
        Sqrt(100 * ( (x[i + 1] - x[i]) * (x[i + 1] - x[i])
                   + (y[i + 1] - y[i]) * (y[i + 1] - y[i]) )) ])

\* np.insert(np.cumsum(seg), 0, 0)
Cumsum(seg, count) == Evaluated([ i \in 1..count |-> SumRange(seg, 1, i - 1) ])

\* the normalised curve and its cumulative arc length
NormCurve(rx, ry, width, height, count) ==
    LET xlo == MinOf({ rx[i] : i \in 1..count })
        xhi == - MinOf({ - rx[i] : i \in 1..count })
        ylo == MinOf({ ry[i] : i \in 1..count })
        yhi == - MinOf({ - ry[i] : i \in 1..count })
        x == Evaluated([ i \in 1..count |-> Normalize(rx[i], xlo, xhi, width) ])
        y == Evaluated([ i \in 1..count |-> Normalize(ry[i], ylo, yhi, height) ])
    IN  [ x |-> x, y |-> y, arc_length |-> Cumsum(Segments(x, y, count), count) ]

\* theta = linspace(0, num_turns * pi, 1000); radius = theta;
\* x = radius * cos(theta); y = radius * sin(theta), normalised to the
\* bounding box.  The sample of index idx is element idx + 1 of each
\* sequence; its theta is pi * num_turns * idx / 999, and the common factor
\* pi * num_turns / 999 of the radius cancels in the normalisation.
spiral_curve(num_turns, width, height) ==
    LET top == NumSamples - 1
    IN  NormCurve(Evaluated([ i \in 1..NumSamples |->
                                (i - 1) * Cos(num_turns * (i - 1), top) ]),
                  Evaluated([ i \in 1..NumSamples |->
                                (i - 1) * Sin(num_turns * (i - 1), top) ]),
                  width, height, NumSamples)

\* the variant that adds turns while the arms are more than the gap apart
distance_bt_turns_below_growing(min_gap, num_turns, width, height) ==
    (IF width < height THEN width ELSE height) > 2 * min_gap * num_turns

\* distance_bt_turns < self.gap for a gap of min_gap, with
\* distance_bt_turns = (min(width, height) / 2) / num_turns
distance_bt_turns_below(min_gap, num_turns, width, height) ==
    (IF width < height THEN width ELSE height) < 2 * min_gap * num_turns

\* the variant that compares max_radius itself with gap
TurnLoopCondition_radius(num_turns, width, height) ==
    (IF width < height THEN width ELSE height) < 2 * gap

\* loop condition of the turn loop: distance_bt_turns < self.gap
TurnLoopCondition(num_turns, width, height) ==
    distance_bt_turns_below(gap, num_turns, width, height)

\* np.searchsorted(arc_length, num / den): the leftmost index (from 0) whose
\* arc length is not below the target (binary search on lo..hi)
RECURSIVE searchsorted(_, _, _, _, _)
searchsorted(arc, num, den, lo, hi) ==
    IF lo >= hi THEN lo
    ELSE LET mid == (lo + hi) \div 2
         IN  IF arc[mid + 1] * den < num THEN searchsorted(arc, num, den, mid + 1, hi)
             ELSE searchsorted(arc, num, den, lo, mid)

\* the variant that appends every sample inside the polygon to pattern_points
spiral_points_all_shown(border, num_turns, num_points, curve) ==
    LET r == boundingRect(border)
        total_length == curve.arc_length[NumSamples]
        max_num_points == total_length \div (gap * 1000)
        nothing == [ abl |-> << >>, pat |-> << >>, warnings |-> << >>, raised |-> "",
                     picked |-> << >>, shown |-> << >> ]
    IN  IF IsNone(num_points)
        THEN [nothing EXCEPT !.raised = "TypeError"]
        ELSE
          LET too_many == Val(num_points) > max_num_points
              count == IF too_many THEN max_num_points ELSE Val(num_points)
              msgs == IF too_many THEN << "num_points greater than max_num_points" >>
                      ELSE << >>
          IN  IF count < 0
              THEN [nothing EXCEPT !.raised = "ValueError", !.warnings = msgs]
              ELSE
                LET den == IF count > 1 THEN count - 1 ELSE 1
                    indices == { searchsorted(curve.arc_length, j * total_length,
                                              den, 0, NumSamples) : j \in 0..(count - 1) }
                    plot == Evaluated([ i \in 1..NumSamples |->
                                << curve.x[i] \div 100 + r.left,
                                   curve.y[i] \div 100 + r.top >> ])
                    inside == SelectSeq([ i \in 1..NumSamples |-> i - 1 ],
                                        LAMBDA idx : containsPoint(border, plot[idx + 1]))
                    chosen == SelectSeq(inside, LAMBDA idx : idx \in indices)
                    others == inside
                IN  [ abl |-> Evaluated([ i \in 1..Len(chosen) |-> plot[chosen[i] + 1] ]),
                      pat |-> Evaluated([ i \in 1..Len(others) |-> plot[others[i] + 1] ]),
                      warnings |-> msgs,
                      raised |-> "",
                      picked |-> chosen,
                      shown |-> others ]

\* the variant that warns about a count above max_num_points and keeps it
spiral_points_unclamped(border, num_turns, num_points, curve) ==
    LET r == boundingRect(border)
        total_length == curve.arc_length[NumSamples]
        max_num_points == total_length \div (gap * 1000)
        nothing == [ abl |-> << >>, pat |-> << >>, warnings |-> << >>, raised |-> "",
                     picked |-> << >>, shown |-> << >> ]
    IN  IF IsNone(num_points)
        THEN [nothing EXCEPT !.raised = "TypeError"]
        ELSE
          LET too_many == Val(num_points) > max_num_points
              count == Val(num_points)
              msgs == IF too_many THEN << "num_points greater than max_num_points" >>
                      ELSE << >>
          IN  IF count < 0
              THEN [nothing EXCEPT !.raised = "ValueError", !.warnings = msgs]
              ELSE
                LET den == IF count > 1 THEN count - 1 ELSE 1
                    indices == { searchsorted(curve.arc_length, j * total_length,
                                              den, 0, NumSamples) : j \in 0..(count - 1) }
                    plot == Evaluated([ i \in 1..NumSamples |->
                                << curve.x[i] \div 100 + r.left,
                                   curve.y[i] \div 100 + r.top >> ])
                    inside == SelectSeq([ i \in 1..NumSamples |-> i - 1 ],
                                        LAMBDA idx : containsPoint(border, plot[idx + 1]))
                    chosen == SelectSeq(inside, LAMBDA idx : idx \in indices)
                    others == SelectSeq(inside, LAMBDA idx : idx \notin indices)
                IN  [ abl |-> Evaluated([ i \in 1..Len(chosen) |-> plot[chosen[i] + 1] ]),
                      pat |-> Evaluated([ i \in 1..Len(others) |-> plot[others[i] + 1] ]),
                      warnings |-> msgs,
                      raised |-> "",
                      picked |-> chosen,
                      shown |-> others ]

\* the result of _pattern_spiral after the turn loop has ended with num_turns:
\* the points appended to ablation_points and pattern_points, the messages
\* printed, the exception raised ("" when the call returns), and the sample
\* indices (from 0) whose points went to ablation_points (picked) and to
\* pattern_points (shown), in the order of appending
spiral_points(border, num_turns, num_points, curve) ==
    LET r == boundingRect(border)
        total_length == curve.arc_length[NumSamples]
        max_num_points == total_length \div (gap * 1000)
        nothing == [ abl |-> << >>, pat |-> << >>, warnings |-> << >>, raised |-> "",
                     picked |-> << >>, shown |-> << >> ]
    IN  IF IsNone(num_points)
        THEN [nothing EXCEPT !.raised = "TypeError"]
        ELSE
          LET too_many == Val(num_points) > max_num_points
              count == IF too_many THEN max_num_points ELSE Val(num_points)
              msgs == IF too_many THEN << "num_points greater than max_num_points" >>
                      ELSE << >>
          IN  IF count < 0
              THEN [nothing EXCEPT !.raised = "ValueError", !.warnings = msgs]
              ELSE
                LET den == IF count > 1 THEN count - 1 ELSE 1
                    indices == { searchsorted(curve.arc_length, j * total_length,
                                              den, 0, NumSamples) : j \in 0..(count - 1) }
                    plot == Evaluated([ i \in 1..NumSamples |->
                                << curve.x[i] \div 100 + r.left,
                                   curve.y[i] \div 100 + r.top >> ])
                    inside == SelectSeq([ i \in 1..NumSamples |-> i - 1 ],
                                        LAMBDA idx : containsPoint(border, plot[idx + 1]))
                    chosen == SelectSeq(inside, LAMBDA idx : idx \in indices)
                    others == SelectSeq(inside, LAMBDA idx : idx \notin indices)
                IN  [ abl |-> Evaluated([ i \in 1..Len(chosen) |-> plot[chosen[i] + 1] ]),
                      pat |-> Evaluated([ i \in 1..Len(others) |-> plot[others[i] + 1] ]),
                      warnings |-> msgs,
                      raised |-> "",
                      picked |-> chosen,
                      shown |-> others ]

\* ------------------------------------------------------------------------
\* Text of the input fields and of the ROI dropdown
\* ------------------------------------------------------------------------
\* A text is the sequence of its characters; the text of a dropdown entry is
\* the sequence of its space-separated words.
DigitChars == << "0", "1", "2", "3", "4", "5", "6", "7", "8", "9" >>
IsDigit(c) == \E i \in 1..10 : DigitChars[i] = c
DigitVal(c) == (CHOOSE i \in 1..10 : DigitChars[i] = c) - 1

RECURSIVE DigitsValue(_, _)
DigitsValue(cs, acc) ==
    IF cs = << >> THEN acc
    ELSE DigitsValue(Tail(cs), 10 * acc + DigitVal(Head(cs)))

RECURSIVE Strip(_)
Strip(t) ==
    IF t = << >> THEN t
    ELSE IF Head(t) = " " THEN Strip(Tail(t))
    ELSE IF t[Len(t)] = " " THEN Strip(SubSeq(t, 1, Len(t) - 1))
    ELSE t

\* the variant that reads a text that is no integer as 0
ParseInt_lenient(text) ==
    LET s == Strip(text)
        signed == s # << >> /\ Head(s) \in { "-", "+" }
        body == IF signed THEN Tail(s) ELSE s
    IN  IF body = << >> \/ \E i \in 1..Len(body) : ~IsDigit(body[i])
        THEN [ ok |-> TRUE, value |-> 0 ]
        ELSE [ ok |-> TRUE,
               value |-> IF s[1] = "-" THEN - DigitsValue(body, 0)
                         ELSE DigitsValue(body, 0) ]

\* Python int(text): surrounding blanks are dropped, an optional sign, then
\* one or more decimal digits; anything else raises ValueError (ok = FALSE)
ParseInt(text) ==
    LET s == Strip(text)
        signed == s # << >> /\ Head(s) \in { "-", "+" }
        body == IF signed THEN Tail(s) ELSE s
    IN  IF body = << >> \/ \E i \in 1..Len(body) : ~IsDigit(body[i])
        THEN [ ok |-> FALSE, value |-> 0 ]
        ELSE [ ok |-> TRUE,
               value |-> IF s[1] = "-" THEN - DigitsValue(body, 0)
                         ELSE DigitsValue(body, 0) ]

\* str(n) for n >= 0
RECURSIVE FormatInt(_)
FormatInt(n) ==
    IF n < 10 THEN << DigitChars[n + 1] >>
    ELSE Append(FormatInt(n \div 10), DigitChars[(n % 10) + 1])

SelectRoiText == << "Select", "ROI" >>
\* the variant that writes the id itself
RoiText_id(roi) == << "Shape", FormatInt(roi) >>
\* f"Shape {roi + 1}"
RoiText(roi) == << "Shape", FormatInt(roi + 1) >>
\* int(selected_roi.split(" ")[1]) - 1
RoiNumber(text) == ParseInt(text[2]).value - 1

\* ------------------------------------------------------------------------
\* Inputs explored by the model
\* ------------------------------------------------------------------------
\* strokes of the mouse in the drawing view: press, moves, release
ClickStroke  == << <<20, 20>>, <<20, 20>> >>
SmallStroke  == << <<0, 0>>, <<10, 0>>, <<10, 10>>, <<0, 10>> >>
SquareStroke == << <<0, 0>>, <<100, 0>>, <<100, 100>>, <<0, 100>> >>
EllStroke    == << <<0, 0>>, <<100, 0>>, <<100, 45>>, <<45, 45>>, <<45, 100>>,
                   <<0, 100>> >>
Strokes == { ClickStroke, SmallStroke, SquareStroke, EllStroke }

\* the boundary of the shape a stroke creates: the stroke closed by its
\* first point
Closed(stroke) == Append(stroke, stroke[1])
Borders == { Closed(s) : s \in Strokes }

\* texts of the horizontal and of the vertical spacing field
SpacingTexts == { << << "-", "1" >>, << "-", "1" >> >>,
                  << << "0" >>, << "1", "0" >> >>,
                  << << "1", "0" >>, << "0" >> >>,
                  << << "4" >>, << "1", "0" >> >>,
                  << << "5" >>, << "5" >> >>,
                  << << "5" >>, << "1", "0" >> >>,
                  << << "1", "0" >>, << "5" >> >>,
                  << << "1", "0" >>, << "1", "0" >> >>,
                  << << "1", "0" >>, << "1", "0", "0", "0" >> >>,
                  << << "1", "0", "0", "0" >>, << "1", "0", "0", "0" >> >>,
                  << << >>, << "1", "0" >> >>,
                  << << "1", "0" >>, << "a", "b", "c" >> >> }
NumPointsTexts == { << >>, << "0" >>, << "3" >>, << "1", "5", "0" >>,
                    << "-", "1" >>, << "x" >> }
SpiralNumsTexts == { << >>, << "0" >>, << "1" >>, << "5", "0" >>,
                     << "1", "5", "0" >>, << "-", "1" >>, << "x" >> }

\* the narrower inputs of a whole session
SessionStrokes == { ClickStroke, SmallStroke, SquareStroke }
SessionBidirectional == { << << "1", "0" >>, << "1", "0" >>, << >> >>,
                          << << "0" >>, << "1", "0" >>, << "3" >> >>,
                          << << "a", "b", "c" >>, << "1", "0" >>, << >> >> }
\* texts of the delay field
DelayTexts == { << >>, << "2" >>, << "-", "1" >>, << "x" >> }

SessionSpiral == { << >>, << "0" >>, << "5", "0" >>, << "x" >> }

IntsOf(texts) == { ParseInt(t).value : t \in { u \in texts : ParseInt(u).ok } }
\* if num_points: int(num_points) else None
OptionsOf(texts) ==
    { Some(k) : k \in IntsOf(texts \ { << >> }) } \cup (IF << >> \in texts THEN { None } ELSE { })

\* ------------------------------------------------------------------------
\* Results of the two generators on the inputs explored, computed once
\* ------------------------------------------------------------------------
\* the parsed spacings as (vertical, horizontal)
SpacingInts ==
    { << ParseInt(t[2]).value, ParseInt(t[1]).value >> :
        t \in { u \in SpacingTexts : ParseInt(u[1]).ok /\ ParseInt(u[2]).ok } }
NumPointsOptions == OptionsOf(NumPointsTexts)

BidirectionalTable ==
    [ k \in { << b, s[1], s[2], n >> :
                 b \in Borders, s \in SpacingInts, n \in NumPointsOptions } |->
        pattern_bidirectional(ShapeTrace(k[1]), k[2], k[3], k[4]) ] @@ << >>

\* _pattern_bidirectional on a shape
Bidirectional(shape, vertical_spacing, horizontal_spacing, num_points) ==
    LET k == << shape.border_points, vertical_spacing, horizontal_spacing, num_points >>
    IN  IF shape.ablation_points = << >> /\ k \in DOMAIN BidirectionalTable
        THEN [BidirectionalTable[k] EXCEPT !.shape =
                 [shape EXCEPT !.ablation_points =
                     BidirectionalTable[k].shape.ablation_points]]
        ELSE pattern_bidirectional(shape, vertical_spacing, horizontal_spacing,
                                   num_points)

\* the turn counts with which the turn loop can end
ExitTurns(width, height) ==
    { t \in 4..MaxTurns : /\ ~TurnLoopCondition(t, width, height)
                          /\ \A u \in 4..(t - 1) : TurnLoopCondition(u, width, height) }

CurveKeys ==
    UNION { { << t, boundingRect(b).width, boundingRect(b).height >> :
                t \in ExitTurns(boundingRect(b).width, boundingRect(b).height) } :
            b \in Borders }

CurveTable == [ k \in CurveKeys |-> spiral_curve(k[1], k[2], k[3]) ] @@ << >>

Curve(num_turns, width, height) ==
    IF << num_turns, width, height >> \in DOMAIN CurveTable
    THEN CurveTable[<< num_turns, width, height >>]
    ELSE spiral_curve(num_turns, width, height)

SpiralKeys ==
    (UNION { { << b, t >> :
                t \in ExitTurns(boundingRect(b).width, boundingRect(b).height) } :
             b \in Borders }) \X OptionsOf(SpiralNumsTexts)

SpiralTable ==
    [ k \in SpiralKeys |->
        spiral_points(k[1][1], k[1][2], k[2],
                      Curve(k[1][2], boundingRect(k[1][1]).width,
                            boundingRect(k[1][1]).height)) ] @@ << >>

\* the part of _pattern_spiral after the turn loop
SpiralPoints(border, num_turns, num_points) ==
    IF << << border, num_turns >>, num_points >> \in DOMAIN SpiralTable
    THEN SpiralTable[<< << border, num_turns >>, num_points >>]
    ELSE spiral_points(border, num_turns, num_points,
                       Curve(num_turns, boundingRect(border).width,
                             boundingRect(border).height))

\* ------------------------------------------------------------------------
\* State
\* ------------------------------------------------------------------------
\* upper bound on the preview points a shape holds when a further spiral
\* apply is explored
MaxPatternLen == 1000

VARIABLES
    shapes,             \* LaserMarkerWindow.shapes: id -> ShapeTrace
    curr_shape_id,      \* LaserMarkerWindow.curr_shape_id
    curr_shape_points,  \* LaserMarkerWindow.curr_shape_points
    drawing,            \* LaserMarkerWindow.drawing
    selected_shape_id,  \* LaserMarkerWindow.selected_shape_id
    roi_items,          \* entries of PhotomApp.roi_dropdown
    roi_index,          \* current entry of PhotomApp.roi_dropdown (from 1)
    pc,                 \* "idle", or "spiral_turns" inside _pattern_spiral
    call,               \* locals of the running _pattern_spiral call
                        \* (odd: num_turns is odd)
    running,            \* FALSE once an exception has left a handler
    last                \* what the last handler was given and reported, the
                        \* positions it set on the mirror and what it returned,
                        \* whether it found ablation points in the shape, and
                        \* the shape it found when it repeats the one before

vars == << shapes, curr_shape_id, curr_shape_points, drawing, selected_shape_id,
           roi_items, roi_index, pc, call, running, last >>

NoCall == [ roi |-> 0, num_points |-> None, num_turns |-> 0, odd |-> FALSE ]

NoReport ==
    [ op |-> "none", roi |-> None, pattern |-> "", parsed |-> FALSE,
      h |-> None, v |-> None, n |-> None,
      status |-> "done", raised |-> "", caught |-> "",
      warnings |-> << >>, repeat |-> FALSE, before |-> None,
      populated |-> FALSE, commands |-> << >>, result |-> None,
      texts |-> << >>, picked |-> << >>, shown |-> << >> ]

Report(op) == [NoReport EXCEPT !.op = op]

RECURSIVE SortedIds(_)
SortedIds(S) ==
    IF S = { } THEN << >>
    ELSE << MinOf(S) >> \o SortedIds(S \ { MinOf(S) })

\* PhotomApp.updateRoiDropdown: the entries after clear() and addItem()
DropdownItems(sh) ==
    << SelectRoiText >> \o
    [ i \in 1..Cardinality(DOMAIN sh) |-> RoiText(SortedIds(DOMAIN sh)[i]) ]

currentText == roi_items[roi_index]

\* a completed apply with the same shape, pattern and parameters came last
Repeats(roi, pattern, h, v, n) ==
    /\ last.op = "apply" /\ last.status = "done" /\ last.parsed
    /\ last.caught = ""
    /\ last.roi = Some(roi) /\ last.pattern = pattern
    /\ last.h = h /\ last.v = v /\ last.n = n

Init ==
    /\ shapes = << >>
    /\ curr_shape_id = 0
    /\ curr_shape_points = << >>
    /\ drawing = FALSE
    /\ selected_shape_id = None
    /\ roi_items = << SelectRoiText >>
    /\ roi_index = 1
    /\ pc = "idle"
    /\ call = NoCall
    /\ running = TRUE
    /\ last = NoReport

\* ------------------------------------------------------------------------
\* LaserMarkerWindow.eventFilter in the drawing view
\* ------------------------------------------------------------------------
IsPrefix(s, t) == Len(s) <= Len(t) /\ SubSeq(t, 1, Len(s)) = s

\* MouseButtonPress with the left button
MousePress(strokes, point) ==
    /\ running /\ pc = "idle"
    /\ ~drawing
    /\ curr_shape_id < MaxShapes
    /\ \E s \in strokes : IsPrefix(Append(curr_shape_points, point), s)
    /\ drawing' = TRUE
    /\ curr_shape_points' = Append(curr_shape_points, point)
    /\ last' = Report("press")
    /\ UNCHANGED << shapes, curr_shape_id, selected_shape_id, roi_items,
                    roi_index, pc, call, running >>

\* MouseMove while the left button is held
MouseMove(strokes, point) ==
    /\ running /\ pc = "idle"
    /\ drawing
    /\ \E s \in strokes : /\ IsPrefix(Append(curr_shape_points, point), s)
                          /\ Len(curr_shape_points) + 1 < Len(s)
    /\ curr_shape_points' = Append(curr_shape_points, point)
    /\ last' = Report("move")
    /\ UNCHANGED << shapes, curr_shape_id, drawing, selected_shape_id, roi_items,
                    roi_index, pc, call, running >>

\* the variant that keeps the points of the stroke in the buffer
MouseRelease_keep_buffer(strokes, point) ==
    /\ running /\ pc = "idle"
    /\ drawing
    /\ Append(curr_shape_points, point) \in strokes
    /\ LET points == Append(Append(curr_shape_points, point), curr_shape_points[1])
           new == (curr_shape_id :> ShapeTrace(points)) @@ shapes
       IN  /\ shapes' = new
           /\ roi_items' = DropdownItems(new)
           /\ curr_shape_points' = points
    /\ roi_index' = 1
    /\ selected_shape_id' = None
    /\ drawing' = FALSE
    /\ curr_shape_id' = curr_shape_id + 1
    /\ last' = Report("release")
    /\ UNCHANGED << pc, call, running >>

\* MouseButtonRelease of the left button: the stroke is closed and becomes a
\* ShapeTrace; shapesUpdated rebuilds the dropdown, whose current entry
\* becomes "Select ROI", and onRoiSelected then clears selected_shape_id
MouseRelease(strokes, point) ==
    /\ running /\ pc = "idle"
    /\ drawing
    /\ Append(curr_shape_points, point) \in strokes
    /\ LET points == Append(Append(curr_shape_points, point), curr_shape_points[1])
           new == (curr_shape_id :> ShapeTrace(points)) @@ shapes
       IN  /\ shapes' = new
           /\ roi_items' = DropdownItems(new)
    /\ roi_index' = 1
    /\ selected_shape_id' = None
    /\ curr_shape_points' = << >>
    /\ drawing' = FALSE
    /\ curr_shape_id' = curr_shape_id + 1
    /\ last' = Report("release")
    /\ UNCHANGED << pc, call, running >>

\* ------------------------------------------------------------------------
\* PhotomApp handlers
\* ------------------------------------------------------------------------
\* the variant that takes the number of the entry as the id
onRoiSelected_number(i) ==
    /\ running /\ pc = "idle"
    /\ i \in 1..Len(roi_items) /\ i # roi_index
    /\ roi_index' = i
    /\ selected_shape_id' = IF roi_items[i] = SelectRoiText THEN None
                            ELSE Some(RoiNumber(roi_items[i]) + 1)
    /\ last' = Report("select")
    /\ UNCHANGED << shapes, curr_shape_id, curr_shape_points, drawing, roi_items,
                    pc, call, running >>

\* onRoiSelected after the user picks entry i of the dropdown
onRoiSelected(i) ==
    /\ running /\ pc = "idle"
    /\ i \in 1..Len(roi_items) /\ i # roi_index
    /\ roi_index' = i
    /\ selected_shape_id' = IF roi_items[i] = SelectRoiText THEN None
                            ELSE Some(RoiNumber(roi_items[i]))
    /\ last' = Report("select")
    /\ UNCHANGED << shapes, curr_shape_id, curr_shape_points, drawing, roi_items,
                    pc, call, running >>

\* onApplyPatternClick with "Select ROI" as the current entry: returns at once
onApplyPatternClickNoRoi ==
    /\ running /\ pc = "idle"
    /\ currentText = SelectRoiText
    /\ last' = Report("apply")
    /\ UNCHANGED << shapes, curr_shape_id, curr_shape_points, drawing,
                    selected_shape_id, roi_items, roi_index, pc, call, running >>

\* onApplyPatternClick with a shape picked and 'Select Pattern' as the
\* current entry of the pattern dropdown: neither branch is taken
onApplyPatternClickNoPattern ==
    /\ running /\ pc = "idle"
    /\ currentText # SelectRoiText
    /\ last' = [Report("apply") EXCEPT !.roi = Some(RoiNumber(currentText)),
                   !.pattern = "Select Pattern"]
    /\ UNCHANGED << shapes, curr_shape_id, curr_shape_points, drawing,
                    selected_shape_id, roi_items, roi_index, pc, call, running >>

\* onApplyPatternClick with 'Bidirectional' selected and the three texts of
\* the spacing and point-count fields
onApplyPatternClickBidirectional(htext, vtext, ntext) ==
    /\ running /\ pc = "idle"
    /\ currentText # SelectRoiText
    /\ LET roi_number == RoiNumber(currentText)
           ph == ParseInt(htext)
           pv == ParseInt(vtext)
           pn == ParseInt(ntext)
           ok == ph.ok /\ pv.ok /\ (ntext = << >> \/ pn.ok)
           h  == ph.value
           v  == pv.value
           num_points == IF ntext = << >> THEN None ELSE Some(pn.value)
           shape == shapes[roi_number]
           cleared == [shape EXCEPT !.pattern_points = << >>,
                                    !.ablation_points = << >>]
           res == Bidirectional(cleared, v, h, num_points)
       IN  IF ~ok
           THEN /\ last' = [Report("apply") EXCEPT !.roi = Some(roi_number),
                               !.pattern = "Bidirectional",
                               !.texts = << htext, vtext, ntext >>,
                               !.caught = "ValueError",
                               !.warnings = << "Invalid spacing value" >>]
                /\ UNCHANGED shapes
           ELSE /\ shapes' = [shapes EXCEPT ![roi_number] = res.shape]
                /\ last' = [Report("apply") EXCEPT !.roi = Some(roi_number),
                               !.pattern = "Bidirectional", !.parsed = TRUE,
                               !.texts = << htext, vtext, ntext >>,
                               !.h = Some(h), !.v = Some(v), !.n = num_points,
                               !.status = IF res.finished THEN "done" ELSE "running",
                               !.warnings = res.warnings,
                               !.populated = shape.ablation_points # << >>,
                               !.before =
                                   IF Repeats(roi_number, "Bidirectional",
                                              Some(h), Some(v), num_points)
                                   THEN Some(shape) ELSE None,
                               !.repeat = Repeats(roi_number, "Bidirectional",
                                                  Some(h), Some(v), num_points)]
    /\ UNCHANGED << curr_shape_id, curr_shape_points, drawing, selected_shape_id,
                    roi_items, roi_index, pc, call, running >>

\* the variant that empties ablation_points before the text is parsed
onApplyPatternClickSpiral_clear_first(ntext) ==
    /\ running /\ pc = "idle"
    /\ currentText # SelectRoiText
    /\ LET roi_number == RoiNumber(currentText)
           pn == ParseInt(ntext)
           ok == ntext = << >> \/ pn.ok
           num_points == IF ntext = << >> THEN None ELSE Some(pn.value)
           shape == shapes[roi_number]
       IN  /\ Len(shape.pattern_points) < MaxPatternLen
           /\ IF ~ok
              THEN /\ last' = [Report("apply") EXCEPT !.roi = Some(roi_number),
                                  !.pattern = "Spiral",
                                  !.texts = << ntext >>,
                                  !.caught = "ValueError",
                                  !.warnings = << "Invalid spacing value" >>]
                   /\ shapes' = [shapes EXCEPT ![roi_number].ablation_points = << >>]
                   /\ UNCHANGED << pc, call >>
              ELSE /\ shapes' = [shapes EXCEPT ![roi_number].ablation_points = << >>]
                   /\ pc' = "spiral_turns"
                   /\ call' = [ roi |-> roi_number, num_points |-> num_points,
                                num_turns |-> 4, odd |-> FALSE ]
                   /\ last' = [Report("apply") EXCEPT !.roi = Some(roi_number),
                                  !.pattern = "Spiral", !.parsed = TRUE,
                                  !.texts = << ntext >>,
                                  !.n = num_points, !.status = "running",
                                  !.populated = shape.ablation_points # << >>,
                                  !.before =
                                      IF Repeats(roi_number, "Spiral",
                                                 None, None, num_points)
                                      THEN Some(shape) ELSE None,
                                  !.repeat = Repeats(roi_number, "Spiral",
                                                     None, None, num_points)]
    /\ UNCHANGED << curr_shape_id, curr_shape_points, drawing, selected_shape_id,
                    roi_items, roi_index, running >>

\* onApplyPatternClick with 'Spiral' selected, up to the turn loop of
\* _pattern_spiral: the text is parsed, ablation_points is cleared and
\* num_turns starts at 4
onApplyPatternClickSpiral(ntext) ==
    /\ running /\ pc = "idle"
    /\ currentText # SelectRoiText
    /\ LET roi_number == RoiNumber(currentText)
           pn == ParseInt(ntext)
           ok == ntext = << >> \/ pn.ok
           num_points == IF ntext = << >> THEN None ELSE Some(pn.value)
           shape == shapes[roi_number]
       IN  /\ Len(shape.pattern_points) < MaxPatternLen
           /\ IF ~ok
              THEN /\ last' = [Report("apply") EXCEPT !.roi = Some(roi_number),
                                  !.pattern = "Spiral",
                                  !.texts = << ntext >>,
                                  !.caught = "ValueError",
                                  !.warnings = << "Invalid spacing value" >>]
                   /\ UNCHANGED << shapes, pc, call >>
              ELSE /\ shapes' = [shapes EXCEPT ![roi_number].ablation_points = << >>]
                   /\ pc' = "spiral_turns"
                   /\ call' = [ roi |-> roi_number, num_points |-> num_points,
                                num_turns |-> 4, odd |-> FALSE ]
                   /\ last' = [Report("apply") EXCEPT !.roi = Some(roi_number),
                                  !.pattern = "Spiral", !.parsed = TRUE,
                                  !.texts = << ntext >>,
                                  !.n = num_points, !.status = "running",
                                  !.populated = shape.ablation_points # << >>,
                                  !.before =
                                      IF Repeats(roi_number, "Spiral",
                                                 None, None, num_points)
                                      THEN Some(shape) ELSE None,
                                  !.repeat = Repeats(roi_number, "Spiral",
                                                     None, None, num_points)]
    /\ UNCHANGED << curr_shape_id, curr_shape_points, drawing, selected_shape_id,
                    roi_items, roi_index, running >>

\* one iteration of the turn loop of _pattern_spiral.  The loop condition
\* only becomes harder to leave as num_turns grows, so every turn count from
\* MaxTurns on is held as MaxTurns, told apart by whether it is odd.
SpiralTurn ==
    /\ running /\ pc = "spiral_turns"
    /\ LET r == boundingRect(shapes[call.roi].border_points)
       IN  TurnLoopCondition(call.num_turns, r.width, r.height)
    /\ call' = [call EXCEPT
                  !.num_turns = IF @ < MaxTurns THEN @ + 1 ELSE MaxTurns,
                  !.odd = ~@]
    /\ UNCHANGED << shapes, curr_shape_id, curr_shape_points, drawing,
                    selected_shape_id, roi_items, roi_index, pc, running, last >>

\* the rest of _pattern_spiral once the turn loop has ended, and the return
\* into onApplyPatternClick: ValueError is caught there, any other exception
\* leaves the handler
SpiralFinish ==
    /\ running /\ pc = "spiral_turns"
    /\ LET shape == shapes[call.roi]
           r == boundingRect(shape.border_points)
           res == SpiralPoints(shape.border_points, call.num_turns, call.num_points)
       IN  /\ ~TurnLoopCondition(call.num_turns, r.width, r.height)
           /\ shapes' = [shapes EXCEPT
                           ![call.roi].ablation_points = @ \o res.abl,
                           ![call.roi].pattern_points = @ \o res.pat]
           /\ last' = [last EXCEPT
                         !.status = IF res.raised \in { "", "ValueError" }
                                    THEN "done" ELSE "raised",
                         !.raised = IF res.raised = "ValueError" THEN "" ELSE res.raised,
                         !.caught = IF res.raised = "ValueError" THEN "ValueError" ELSE "",
                         !.warnings = res.warnings \o
                                      (IF res.raised = "ValueError"
                                       THEN << "Invalid spacing value" >> ELSE << >>),
                         !.picked = res.picked,
                         !.shown = res.shown]
           /\ running' = (res.raised \in { "", "ValueError" })
    /\ pc' = "idle"
    /\ call' = NoCall
    /\ UNCHANGED << curr_shape_id, curr_shape_points, drawing, selected_shape_id,
                    roi_items, roi_index >>

\* ------------------------------------------------------------------------
\* LaserMarkerWindow._roi_tracing
\* ------------------------------------------------------------------------
\* the calibration matrix of the mirror: rows of x and of y
T_affine == << << 2, 0, 3 >>, << 0, 3, -1 >> >>

\* affine_transform_obj.apply_affine(position): the matrix applied to
\* (x, y, 1), giving the mirror coordinates
apply_affine(position) ==
    << T_affine[1][1] * position[1] + T_affine[1][2] * position[2] + T_affine[1][3],
       T_affine[2][1] * position[1] + T_affine[2][2] * position[2] + T_affine[2][3] >>

\* mirror_x_slider.setValue and mirror_y_slider.setValue: the position the
\* mirror is sent to
MirrorCommand(new_coords) == << new_coords[1], new_coords[2] >>

\* float(text) of the delay field; the texts explored are those of integers
ParseDelay(text) == ParseInt(text)

\* the variant whose loop starts at the second ablation point
roi_trace_from_second(shape, pattern_delay) ==
    LET points == SubSeq(shape.ablation_points, 2, Len(shape.ablation_points))
        coords == [ i \in 1..Len(points) |-> apply_affine(points[i]) ]
    IN  IF points # << >> /\ pattern_delay < 0
        THEN [ commands |-> << MirrorCommand(coords[1]) >>, result |-> None,
               raised |-> "ValueError" ]
        ELSE [ commands |-> [ i \in 1..Len(points) |-> MirrorCommand(coords[i]) ],
               result |-> Some(coords), raised |-> "" ]

\* the loop of _roi_tracing over the ablation points of the selected shape:
\* each point is transformed, set on the two sliders and appended to the
\* list returned; time.sleep raises ValueError for a negative delay
roi_trace(shape, pattern_delay) ==
    LET points == shape.ablation_points
        coords == [ i \in 1..Len(points) |-> apply_affine(points[i]) ]
    IN  IF points # << >> /\ pattern_delay < 0
        THEN [ commands |-> << MirrorCommand(coords[1]) >>, result |-> None,
               raised |-> "ValueError" ]
        ELSE [ commands |-> [ i \in 1..Len(points) |-> MirrorCommand(coords[i]) ],
               result |-> Some(coords), raised |-> "" ]

\* _roi_tracing, the handler of the run button, with the text of the delay
\* field; nothing catches an exception it raises
roi_tracing(delaytext) ==
    /\ running /\ pc = "idle"
    /\ LET pd == ParseDelay(delaytext)
           pattern_delay == IF delaytext = << >> THEN 1 ELSE pd.value
           report == [Report("run") EXCEPT !.roi = selected_shape_id]
       IN  IF delaytext # << >> /\ ~pd.ok
           THEN /\ last' = [report EXCEPT !.status = "raised", !.raised = "ValueError"]
                /\ running' = FALSE
           ELSE IF IsNone(selected_shape_id)
           THEN /\ last' = [report EXCEPT !.parsed = TRUE]
                /\ UNCHANGED running
           ELSE IF Val(selected_shape_id) \notin DOMAIN shapes
           THEN /\ last' = [report EXCEPT !.status = "raised", !.raised = "KeyError"]
                /\ running' = FALSE
           ELSE LET res == roi_trace(shapes[Val(selected_shape_id)], pattern_delay)
                IN  /\ last' = [report EXCEPT
                                  !.parsed = TRUE,
                                  !.status = IF res.raised = "" THEN "done" ELSE "raised",
                                  !.raised = res.raised,
                                  !.commands = res.commands,
                                  !.result = res.result]
                    /\ running' = (res.raised = "")
    /\ UNCHANGED << shapes, curr_shape_id, curr_shape_points, drawing,
                    selected_shape_id, roi_items, roi_index, pc, call >>

\* the variant that removes the first shape of the collection
onDeleteClick_first ==
    /\ running /\ pc = "idle"
    /\ IF currentText # SelectRoiText
       THEN LET roi_id == MinOf(DOMAIN shapes)
                rest == [ i \in DOMAIN shapes \ { roi_id } |-> shapes[i] ]
            IN  /\ shapes' = rest
                /\ roi_items' = DropdownItems(rest)
                /\ roi_index' = 1
                /\ selected_shape_id' = None
       ELSE UNCHANGED << shapes, roi_items, roi_index, selected_shape_id >>
    /\ last' = [Report("delete") EXCEPT
                  !.roi = IF currentText # SelectRoiText
                          THEN Some(RoiNumber(currentText)) ELSE None]
    /\ UNCHANGED << curr_shape_id, curr_shape_points, drawing, pc, call, running >>

\* the variant that moves the shapes after the deleted one down by one id
onDeleteClick_renumber ==
    /\ running /\ pc = "idle"
    /\ IF currentText # SelectRoiText
       THEN LET roi_id == RoiNumber(currentText)
                kept == DOMAIN shapes \ { roi_id }
                rest == [ i \in { IF k > roi_id THEN k - 1 ELSE k : k \in kept } |->
                            IF i >= roi_id THEN shapes[i + 1] ELSE shapes[i] ]
            IN  /\ shapes' = rest
                /\ roi_items' = DropdownItems(rest)
                /\ roi_index' = 1
                /\ selected_shape_id' = None
       ELSE UNCHANGED << shapes, roi_items, roi_index, selected_shape_id >>
    /\ last' = [Report("delete") EXCEPT
                  !.roi = IF currentText # SelectRoiText
                          THEN Some(RoiNumber(currentText)) ELSE None]
    /\ UNCHANGED << curr_shape_id, curr_shape_points, drawing, pc, call, running >>

\* the variant that hands the id counter back when a shape is deleted
onDeleteClick_release_id ==
    /\ running /\ pc = "idle"
    /\ IF currentText # SelectRoiText
       THEN LET roi_id == RoiNumber(currentText)
                rest == [ i \in DOMAIN shapes \ { roi_id } |-> shapes[i] ]
            IN  /\ shapes' = rest
                /\ roi_items' = DropdownItems(rest)
                /\ roi_index' = 1
                /\ selected_shape_id' = None
                /\ curr_shape_id' = curr_shape_id - 1
       ELSE UNCHANGED << shapes, roi_items, roi_index, selected_shape_id,
                         curr_shape_id >>
    /\ last' = [Report("delete") EXCEPT
                  !.roi = IF currentText # SelectRoiText
                          THEN Some(RoiNumber(currentText)) ELSE None]
    /\ UNCHANGED << curr_shape_points, drawing, pc, call, running >>

\* onDeleteClick
onDeleteClick ==
    /\ running /\ pc = "idle"
    /\ IF currentText # SelectRoiText
       THEN LET roi_id == RoiNumber(currentText)
                rest == [ i \in DOMAIN shapes \ { roi_id } |-> shapes[i] ]
            IN  /\ shapes' = rest
                /\ roi_items' = DropdownItems(rest)
                /\ roi_index' = 1
                /\ selected_shape_id' = None
       ELSE UNCHANGED << shapes, roi_items, roi_index, selected_shape_id >>
    /\ last' = [Report("delete") EXCEPT
                  !.roi = IF currentText # SelectRoiText
                          THEN Some(RoiNumber(currentText)) ELSE None]
    /\ UNCHANGED << curr_shape_id, curr_shape_points, drawing, pc, call, running >>

\* ------------------------------------------------------------------------
\* Specifications
\* ------------------------------------------------------------------------
\* a session: shapes are drawn, selected, patterned and deleted
Points(strokes) == UNION { { s[i] : i \in 1..Len(s) } : s \in strokes }

Next ==
    \/ \E p \in Points(SessionStrokes) : MousePress(SessionStrokes, p)
    \/ \E p \in Points(SessionStrokes) : MouseMove(SessionStrokes, p)
    \/ \E p \in Points(SessionStrokes) : MouseRelease(SessionStrokes, p)
    \/ \E i \in 1..(MaxShapes + 1) : onRoiSelected(i)
    \/ onApplyPatternClickNoRoi
    \/ onApplyPatternClickNoPattern
    \/ \E t \in SessionBidirectional : onApplyPatternClickBidirectional(t[1], t[2], t[3])
    \/ \E t \in SessionSpiral : onApplyPatternClickSpiral(t)
    \/ SpiralTurn
    \/ SpiralFinish
    \/ onDeleteClick
    \/ \E t \in DelayTexts : roi_tracing(t)

Spec == Init /\ [][Next]_vars

\* pattern generation on one shape: any of the strokes has been drawn and its
\* entry picked in the dropdown; patterns are applied with all the inputs
PatternInit ==
    /\ \E s \in Strokes : shapes = (0 :> ShapeTrace(Closed(s)))
    /\ curr_shape_id = 1
    /\ curr_shape_points = << >>
    /\ drawing = FALSE
    /\ selected_shape_id = Some(0)
    /\ roi_items = << SelectRoiText, RoiText(0) >>
    /\ roi_index = 2
    /\ pc = "idle"
    /\ call = NoCall
    /\ running = TRUE
    /\ last = NoReport

BidirectionalInputs ==
    { << t[1], t[2], n >> : t \in SpacingTexts, n \in NumPointsTexts }

PatternNext ==
    \/ onApplyPatternClickNoPattern
    \/ \E t \in BidirectionalInputs : onApplyPatternClickBidirectional(t[1], t[2], t[3])
    \/ \E t \in SpiralNumsTexts : onApplyPatternClickSpiral(t)
    \/ SpiralTurn
    \/ SpiralFinish

PatternSpec == PatternInit /\ [][PatternNext]_vars

\* a handler that has started keeps running: the turn loop takes its next
\* iteration and the call returns once the loop has ended
FairPatternSpec ==
    PatternInit /\ [][PatternNext]_vars /\ WF_vars(SpiralTurn) /\ WF_vars(SpiralFinish)


\* direct calls of the ShapeTrace methods: a ShapeTrace is constructed from
\* a list of border points, of any length, and one generator is called on it
EngineBorders ==
    { << >>, << <<5, 5>> >>, << <<0, 0>>, <<100, 100>> >>, << <<0, 0>>, <<10, 0>> >>,
      Closed(SmallStroke), Closed(SquareStroke) }

EngineInit ==
    /\ shapes = << >>
    /\ curr_shape_id = 0
    /\ curr_shape_points = << >>
    /\ drawing = FALSE
    /\ selected_shape_id = None
    /\ roi_items = << SelectRoiText >>
    /\ roi_index = 1
    /\ pc = "idle"
    /\ call = NoCall
    /\ running = TRUE
    /\ last = NoReport

\* ShapeTrace(border_points)
EngineConstruct(border_points) ==
    /\ running /\ pc = "idle"
    /\ shapes = << >>
    /\ shapes' = (0 :> ShapeTrace(border_points))
    /\ last' = [Report("construct") EXCEPT !.roi = Some(0)]
    /\ UNCHANGED << curr_shape_id, curr_shape_points, drawing, selected_shape_id,
                    roi_items, roi_index, pc, call, running >>

\* shape._pattern_bidirectional(vertical_spacing, horizontal_spacing, num_points)
\* on the shape just constructed
EngineBidirectional(vertical_spacing, horizontal_spacing, num_points) ==
    /\ running /\ pc = "idle"
    /\ 0 \in DOMAIN shapes
    /\ shapes[0] = ShapeTrace(shapes[0].border_points)
    /\ LET res == Bidirectional(shapes[0], vertical_spacing, horizontal_spacing,
                                num_points)
       IN  /\ shapes' = [shapes EXCEPT ![0] = res.shape]
           /\ last' = [Report("call") EXCEPT !.roi = Some(0),
                          !.pattern = "Bidirectional", !.parsed = TRUE,
                          !.h = Some(horizontal_spacing),
                          !.v = Some(vertical_spacing), !.n = num_points,
                          !.warnings = res.warnings]
    /\ UNCHANGED << curr_shape_id, curr_shape_points, drawing, selected_shape_id,
                    roi_items, roi_index, pc, call, running >>

\* shape._pattern_spiral(num_points) on the shape just constructed, up to
\* the turn loop
EngineSpiral(num_points) ==
    /\ running /\ pc = "idle"
    /\ 0 \in DOMAIN shapes
    /\ shapes[0] = ShapeTrace(shapes[0].border_points)
    /\ last.op = "construct"
    /\ pc' = "spiral_turns"
    /\ call' = [ roi |-> 0, num_points |-> num_points, num_turns |-> 4,
                 odd |-> FALSE ]
    /\ last' = [Report("call") EXCEPT !.roi = Some(0), !.pattern = "Spiral",
                   !.parsed = TRUE, !.n = num_points, !.status = "running"]
    /\ UNCHANGED << shapes, curr_shape_id, curr_shape_points, drawing,
                    selected_shape_id, roi_items, roi_index, running >>

EngineNext ==
    \/ \E b \in EngineBorders : EngineConstruct(b)
    \/ \E s \in SpacingInts, n \in NumPointsOptions : EngineBidirectional(s[1], s[2], n)
    \/ \E n \in OptionsOf(SpiralNumsTexts) : EngineSpiral(n)
    \/ SpiralTurn
    \/ SpiralFinish

EngineSpec == EngineInit /\ [][EngineNext]_vars

\* the turn selection of _pattern_spiral on its own, as a function of the
\* bounding box and of the gap: lines 87-99 with self.gap as an input
TurnCap == 24
TurnSides == { 10, 39, 40, 80, 120, 200 }
TurnGaps == 1..12

\* the turn count the selection ends with, None when the loop is still
\* running at TurnCap turns
RECURSIVE TurnsFrom(_, _, _)
TurnsFrom(side, min_gap, num_turns) ==
    IF ~distance_bt_turns_below(min_gap, num_turns, side, side) THEN Some(num_turns)
    ELSE IF num_turns >= TurnCap THEN None
    ELSE TurnsFrom(side, min_gap, num_turns + 1)

ChosenTurns(side, min_gap) == TurnsFrom(side, min_gap, 4)

\* lines 87-94: max_radius, num_turns = 4, distance_bt_turns
TurnSelect(side, min_gap) ==
    /\ pc \in { "idle", "turns_chosen" }
    /\ pc' = "turn_selection"
    /\ call' = [ roi |-> 0, num_points |-> None, num_turns |-> 4, odd |-> FALSE,
                 side |-> side, gap |-> min_gap ]
    /\ UNCHANGED << shapes, curr_shape_id, curr_shape_points, drawing,
                    selected_shape_id, roi_items, roi_index, running, last >>

\* lines 97-99: one iteration; turn counts from TurnCap on are held as
\* TurnCap, told apart by whether they are odd
TurnIncrement ==
    /\ pc = "turn_selection"
    /\ distance_bt_turns_below(call.gap, call.num_turns, call.side, call.side)
    /\ call' = [call EXCEPT
                  !.num_turns = IF @ < TurnCap THEN @ + 1 ELSE TurnCap,
                  !.odd = ~@]
    /\ UNCHANGED << shapes, curr_shape_id, curr_shape_points, drawing,
                    selected_shape_id, roi_items, roi_index, pc, running, last >>

\* line 97: the loop condition is false, the turn count is chosen
TurnChosen ==
    /\ pc = "turn_selection"
    /\ ~distance_bt_turns_below(call.gap, call.num_turns, call.side, call.side)
    /\ pc' = "turns_chosen"
    /\ UNCHANGED << shapes, curr_shape_id, curr_shape_points, drawing,
                    selected_shape_id, roi_items, roi_index, call, running, last >>

TurnNext ==
    \/ \E s \in TurnSides, g \in TurnGaps : TurnSelect(s, g)
    \/ TurnIncrement
    \/ TurnChosen

TurnSpec == EngineInit /\ [][TurnNext]_vars

\* ------------------------------------------------------------------------
\* Properties of pattern generation
\* ------------------------------------------------------------------------
\* an apply handler has returned without an exception, its texts parsed
Applied(pattern) ==
    /\ pc = "idle" /\ last.op = "apply" /\ last.pattern = pattern
    /\ last.parsed /\ last.status = "done" /\ last.caught = ""

\* the shape the last apply handler worked on
AppliedShape == shapes[Val(last.roi)]

AllInside(border, points) ==
    \A i \in 1..Len(points) : containsPoint(border, points[i])

HasWarning(w) == \E i \in 1..Len(last.warnings) : last.warnings[i] = w

PointSet(points) == { points[i] : i \in 1..Len(points) }

Larger(a, b) == IF a < b THEN b ELSE a

\* the points a generator stores in a shape whose outputs are empty
FreshBidirectional(border, v, h, n) ==
    Bidirectional(ShapeTrace(border), v, h, n).shape.ablation_points

FreshSpiral(border, n) ==
    LET r == boundingRect(border)
    IN  SpiralPoints(border, CHOOSE t \in ExitTurns(r.width, r.height) : TRUE, n)

\* C1: after any apply every point of ablation_points and of pattern_points
\* passes the polygon's containment test, unless ablation_points is the
\* single fallback centre
C1_PointsInsidePolygon ==
    \A id \in DOMAIN shapes :
        LET s == shapes[id]
        IN  /\ AllInside(s.border_points, s.pattern_points)
            /\ \/ AllInside(s.border_points, s.ablation_points)
               \/ s.ablation_points = << Center(s.border_points) >>

\* C2: after an apply of either pattern both outputs of the shape hold
\* exactly the points that apply produced, nothing left from earlier applies
C2_PreviousOutputsDiscarded ==
    /\ Applied("Bidirectional") =>
           /\ AppliedShape.ablation_points =
                  FreshBidirectional(AppliedShape.border_points,
                                     Val(last.v), Val(last.h), last.n)
           /\ AppliedShape.pattern_points = << >>
    /\ Applied("Spiral") =>
           LET res == FreshSpiral(AppliedShape.border_points, last.n)
           IN  /\ AppliedShape.ablation_points = res.abl
               /\ AppliedShape.pattern_points = res.pat

\* C3: an apply that repeats the apply before it (same shape, pattern and
\* parameters) leaves both outputs as they were after the first
C3_ApplyIdempotent ==
    (/\ pc = "idle" /\ last.op = "apply" /\ last.status = "done"
     /\ last.caught = "" /\ last.repeat) =>
        /\ AppliedShape.ablation_points = Val(last.before).ablation_points
        /\ AppliedShape.pattern_points = Val(last.before).pattern_points

\* C4: an apply whose texts are integers (the point count possibly omitted)
\* returns without an exception, raised or caught, and leaves ablation_points
\* non-empty
C4_ApplyCompletes ==
    (pc = "idle" /\ last.op = "apply" /\ last.parsed) =>
        /\ last.status = "done" /\ last.raised = "" /\ last.caught = ""
        /\ running
        /\ AppliedShape.ablation_points # << >>

\* C5: the turn loop of the spiral generator ends for every polygon
C5_TurnLoopTerminates == (pc = "spiral_turns") ~> (pc = "idle")

\* C6: a bidirectional apply to a polygon of more than one pixel, with both
\* spacings exceeding its bounding rectangle, stores exactly the centre and
\* records the too-large warning
C6_TooLargeSpacingFallback ==
    (/\ Applied("Bidirectional")
     /\ boundingRect(AppliedShape.border_points).width > 1
     /\ boundingRect(AppliedShape.border_points).height > 1
     /\ Val(last.h) > boundingRect(AppliedShape.border_points).width
     /\ Val(last.v) > boundingRect(AppliedShape.border_points).height) =>
        /\ AppliedShape.ablation_points = << Center(AppliedShape.border_points) >>
        /\ HasWarning("spacing too large")

\* C7: each spacing below gap acts as gap, on its own axis, and a spacing of
\* at least gap is the step of the points on its axis: the stored points are
\* those of an apply with the larger of spacing and gap, and every point is
\* a whole number of such steps from the centre on each axis
C7_SpacingClampedToGap ==
    Applied("Bidirectional") =>
        LET b  == AppliedShape.border_points
            hs == Larger(Val(last.h), gap)
            vs == Larger(Val(last.v), gap)
            c  == Center(b)
            pts == AppliedShape.ablation_points
        IN  /\ pts = FreshBidirectional(b, vs, hs, last.n)
            /\ \A i \in 1..Len(pts) : /\ (pts[i][1] - c[1]) % hs = 0
                                      /\ (pts[i][2] - c[2]) % vs = 0

\* a spacing below gap was applied on one axis only and gave several points
C7_Witness ==
    /\ Applied("Bidirectional")
    /\ Val(last.h) = 0 /\ Val(last.v) = 10
    /\ Len(AppliedShape.ablation_points) > 10

\* C8 as claimed: with a point count n, ablation_points has at most n
\* entries, and exactly n when the unlimited traversal yields at least n
C8_AtMostCount ==
    (Applied("Bidirectional") /\ ~IsNone(last.n)) =>
        LET all == FreshBidirectional(AppliedShape.border_points,
                                      Val(last.v), Val(last.h), None)
            pts == AppliedShape.ablation_points
        IN  /\ Len(pts) <= Val(last.n)
            /\ Len(all) >= Val(last.n) => Len(pts) = Val(last.n)

\* C8 amended: with a point count n >= 1 the stored points are the first n
\* of the unlimited traversal (all of them when it has fewer); with n <= 0
\* the single centre is stored and the too-large warning recorded
C8_CountLimitsPoints ==
    (Applied("Bidirectional") /\ ~IsNone(last.n)) =>
        LET all == FreshBidirectional(AppliedShape.border_points,
                                      Val(last.v), Val(last.h), None)
            pts == AppliedShape.ablation_points
            n   == Val(last.n)
        IN  IF n >= 1
            THEN /\ Len(pts) <= n
                 /\ Len(all) >= n => Len(pts) = n
                 /\ pts = SubSeq(all, 1, Len(pts))
            ELSE /\ pts = << Center(AppliedShape.border_points) >>
                 /\ HasWarning("spacing too large")

\* the count cut the traversal short
C8_Witness ==
    /\ Applied("Bidirectional")
    /\ last.n = Some(3)
    /\ Len(AppliedShape.ablation_points) = 3
    /\ Len(FreshBidirectional(AppliedShape.border_points,
                              Val(last.v), Val(last.h), None)) > 3

\* the square of the scenario, spacings 10 and 10, no point count
SquareScenario ==
    /\ Applied("Bidirectional")
    /\ AppliedShape.border_points = Closed(SquareStroke)
    /\ last.h = Some(10) /\ last.v = Some(10) /\ IsNone(last.n)

Lattice(xs, ys) == { << x, y >> : x \in xs, y \in ys }

\* C9 as claimed: the square yields the 11 x 11 lattice, 121 distinct points
\* within [0, 100] x [0, 100]
C9_FullLattice ==
    SquareScenario =>
        /\ Cardinality(PointSet(AppliedShape.ablation_points)) = 121
        /\ PointSet(AppliedShape.ablation_points) \subseteq
               Lattice(0..100, 0..100)

\* C9 amended: the square yields the 10 x 10 lattice of the multiples of 10
\* from 0 to 90 on each axis, 100 distinct points, each stored once
C9_HalfOpenLattice ==
    SquareScenario =>
        /\ Len(AppliedShape.ablation_points) = 100
        /\ PointSet(AppliedShape.ablation_points) =
               Lattice({ 10 * i : i \in 0..9 }, { 10 * i : i \in 0..9 })

C9_Witness == SquareScenario /\ Len(AppliedShape.ablation_points) > 1

\* rows in increasing y from the top of the bounding rectangle in steps of
\* vs; x increasing on even rows and decreasing on odd rows in steps of hs
SnakeOrdered(points, top, vs, hs) ==
    /\ points[1][2] = top
    /\ \A i \in 1..(Len(points) - 1) :
           LET p == points[i]
               q == points[i + 1]
               even == ((p[2] - top) \div vs) % 2 = 0
           IN  /\ (q[2] - top) % vs = 0
               /\ \/ q[2] > p[2]
                  \/ /\ q[2] = p[2]
                     /\ (q[1] - p[1]) % hs = 0
                     /\ IF even THEN q[1] > p[1] ELSE q[1] < p[1]

\* C10: the points of a bidirectional apply are in snake sweep order
C10_SnakeOrder ==
    (Applied("Bidirectional") /\ Len(AppliedShape.ablation_points) > 1) =>
        SnakeOrdered(AppliedShape.ablation_points,
                     boundingRect(AppliedShape.border_points).top,
                     Larger(Val(last.v), gap), Larger(Val(last.h), gap))

\* C22: the ablation_points of one bidirectional apply hold no coordinate
\* twice, and every point after the first (the start) passes the containment
\* test
C22_LatticeVisitedOnce ==
    Applied("Bidirectional") =>
        LET abl == AppliedShape.ablation_points
        IN  /\ \A i, j \in 1..Len(abl) : abl[i] = abl[j] => i = j
            /\ \A i \in 2..Len(abl) : containsPoint(AppliedShape.border_points, abl[i])

\* a bidirectional apply has walked over many lattice points
C22_Witness ==
    /\ Applied("Bidirectional")
    /\ Len(AppliedShape.ablation_points) > 100

\* the four lattice steps for the spacings hs and vs
LatticeSteps(hs, vs) == { << hs, 0 >>, << -hs, 0 >>, << 0, vs >>, << 0, -vs >> }

\* the lattice points inside the polygon by their distance in lattice steps
\* from the start: frontier holds those at the distance reached, seen those
\* found so far
RECURSIVE DepthLayers(_, _, _, _)
DepthLayers(border, steps, seen, frontier) ==
    IF frontier = { } THEN << >>
    ELSE LET next == { q \in { << p[1] + d[1], p[2] + d[2] >> :
                                   p \in frontier, d \in steps } :
                           q \notin seen /\ containsPoint(border, q) }
         IN  << frontier >> \o DepthLayers(border, steps, seen \cup next, next)

\* C23: after a bidirectional apply the first ablation point is the rounded
\* midpoint of the bounding box, every later point is one lattice step (of
\* the spacings in force) away from a point earlier in the sequence, and the
\* distance from the start in lattice steps never falls along the sequence
C23_PathGrowsOutward ==
    Applied("Bidirectional") =>
        LET border == AppliedShape.border_points
            abl == AppliedShape.ablation_points
            steps == LatticeSteps(Larger(Val(last.h), gap), Larger(Val(last.v), gap))
            layers == DepthLayers(border, steps, { Center(border) }, { Center(border) })
            depth == [ i \in 1..Len(abl) |->
                         CHOOSE k \in 1..Len(layers) : abl[i] \in layers[k] ] @@ << >>
        IN  /\ abl # << >> /\ abl[1] = Center(border)
            /\ \A i \in 2..Len(abl) :
                   \E j \in 1..(i - 1) :
                       << abl[i][1] - abl[j][1], abl[i][2] - abl[j][2] >> \in steps
            /\ \A i \in 1..(Len(abl) - 1) : depth[i] <= depth[i + 1]

\* a bidirectional apply on the L-shaped polygon has reached points several
\* steps from the start
C23_Witness ==
    /\ Applied("Bidirectional")
    /\ AppliedShape.border_points = Closed(EllStroke)
    /\ Len(AppliedShape.ablation_points) > 20

\* the number of lattice positions around the start that lie in the bounding
\* rectangle, for the spacings hs and vs
LatticeCount(border, hs, vs) ==
    LET r == boundingRect(border)
        c == Center(border)
    IN  ((r.right - c[1]) \div hs + (c[1] - r.left) \div hs + 1) *
        ((r.bottom - c[2]) \div vs + (c[2] - r.top) \div vs + 1)

\* C24: a bidirectional apply with integer spacings, zero and negative ones
\* included, and with or without a point limit ends its traversal, and the
\* points it leaves are at most the lattice positions in the bounding box
C24_TraversalTerminates ==
    (/\ pc = "idle" /\ last.op = "apply" /\ last.pattern = "Bidirectional"
     /\ last.parsed) =>
        /\ last.status = "done" /\ running
        /\ Len(AppliedShape.ablation_points) <=
               LatticeCount(AppliedShape.border_points,
                            Larger(Val(last.h), gap), Larger(Val(last.v), gap))

\* a traversal with a spacing that is not positive has ended after many
\* points
C24_Witness ==
    /\ Applied("Bidirectional")
    /\ Val(last.h) <= 0
    /\ Len(AppliedShape.ablation_points) > 100

\* C25: the step that ends a spiral apply appends to ablation_points the
\* points of samples of strictly increasing index, no sample index goes to
\* both outputs or twice to one, and the two outputs together gain at most
\* NumSamples = 1000 entries
C25_SpiralCurveOrder ==
    [][ (pc = "spiral_turns" /\ pc' = "idle") =>
            LET picked == last'.picked
                shown == last'.shown
                before == shapes[call.roi]
                after == shapes'[call.roi]
            IN  /\ \A i \in 1..Len(picked) : picked[i] \in 0..(NumSamples - 1)
                /\ \A i \in 1..Len(shown) : shown[i] \in 0..(NumSamples - 1)
                /\ \A i \in 1..(Len(picked) - 1) : picked[i] < picked[i + 1]
                /\ \A i \in 1..(Len(shown) - 1) : shown[i] < shown[i + 1]
                /\ \A i \in 1..Len(picked) :
                       \A j \in 1..Len(shown) : picked[i] # shown[j]
                /\ Len(after.ablation_points) =
                       Len(before.ablation_points) + Len(picked)
                /\ Len(after.pattern_points) =
                       Len(before.pattern_points) + Len(shown)
                /\ Len(picked) + Len(shown) <= NumSamples ]_vars

\* a spiral apply has appended points to both outputs
C25_Witness ==
    /\ Applied("Spiral")
    /\ Len(last.picked) > 10 /\ Len(last.shown) > 100

\* ------------------------------------------------------------------------
\* Properties of a session
\* ------------------------------------------------------------------------
\* C11: every id in the shape collection is below the next id to assign, the
\* next id never decreases, and a shape that enters the collection gets an id
\* not below the next id of the moment, hence the id of no earlier shape
C11_IdsIncreaseNeverReused ==
    /\ [](\A id \in DOMAIN shapes : id < curr_shape_id)
    /\ [][ /\ curr_shape_id' >= curr_shape_id
           /\ \A id \in DOMAIN shapes' \ DOMAIN shapes :
                  id >= curr_shape_id /\ id < curr_shape_id' ]_vars

\* a shape was drawn after the deletion of an earlier one
C11_Witness ==
    /\ DOMAIN shapes # { }
    /\ \E id \in 0..(curr_shape_id - 1) :
          id \notin DOMAIN shapes /\ \E later \in DOMAIN shapes : later > id

\* C12: a newly drawn shape has empty outputs; an apply that finds ablation
\* points in the shape and returns does not leave ablation_points empty; a
\* deleted shape is gone from the collection (and by C11 its id never comes
\* back)
C12_ShapeLifecycle ==
    /\ last.op = "release" =>
           /\ shapes[curr_shape_id - 1].ablation_points = << >>
           /\ shapes[curr_shape_id - 1].pattern_points = << >>
    /\ (/\ pc = "idle" /\ last.op = "apply" /\ last.parsed
        /\ last.status = "done" /\ last.caught = "" /\ last.populated) =>
           AppliedShape.ablation_points # << >>
    /\ (last.op = "delete" /\ ~IsNone(last.roi)) =>
           Val(last.roi) \notin DOMAIN shapes

\* a run on a selected shape has returned
RunReturned ==
    /\ pc = "idle" /\ last.op = "run" /\ last.status = "done"
    /\ ~IsNone(last.roi)

\* C13: a run on the selected shape sets the mirror once per entry of the
\* shape's ablation_points, in their order, to the transformed point, and
\* returns the transformed points in the same number and order
C13_RunFollowsAblationPoints ==
    RunReturned =>
        LET points == shapes[Val(last.roi)].ablation_points
        IN  /\ Len(last.commands) = Len(points)
            /\ \A i \in 1..Len(points) :
                   last.commands[i] = MirrorCommand(apply_affine(points[i]))
            /\ ~IsNone(last.result)
            /\ Len(Val(last.result)) = Len(points)
            /\ \A i \in 1..Len(points) :
                   Val(last.result)[i] = apply_affine(points[i])

\* a run has traced a shape of several ablation points
C13_Witness ==
    RunReturned /\ Len(last.commands) > 3 /\ last.commands[1] # last.commands[2]


\* C26: selected_shape_id is None or the id of a shape in the collection, so
\* a run never fails to find its shape; a run with nothing selected, or on a
\* shape without ablation points, sets no mirror position
C26_SelectionValid ==
    /\ IsNone(selected_shape_id) \/ Val(selected_shape_id) \in DOMAIN shapes
    /\ last.op = "run" =>
           /\ last.raised # "KeyError"
           /\ last.roi = selected_shape_id
           /\ (IsNone(last.roi) \/ shapes[Val(last.roi)].ablation_points = << >>) =>
                  last.commands = << >>

\* after a deletion, a run was started on a selected shape that has no
\* ablation points
C26_Witness ==
    /\ last.op = "run" /\ last.status = "done"
    /\ ~IsNone(last.roi)
    /\ shapes[Val(last.roi)].ablation_points = << >>
    /\ curr_shape_id > Cardinality(DOMAIN shapes)


\* C27: the release that completes a drawing gesture adds exactly one shape,
\* under a new id, whose boundary is the points of this gesture closed by the
\* first of them (at least 3 entries); the point buffer is empty whenever no
\* gesture is under way, and holds the points pressed and moved over while
\* one is
C27_GestureMakesOneShape ==
    /\ [](IF drawing THEN curr_shape_points # << >> ELSE curr_shape_points = << >>)
    /\ [][ (drawing /\ ~drawing') =>
               /\ curr_shape_id \notin DOMAIN shapes
               /\ DOMAIN shapes' = DOMAIN shapes \cup { curr_shape_id }
               /\ \A id \in DOMAIN shapes : shapes'[id] = shapes[id]
               /\ LET border == shapes'[curr_shape_id].border_points
                  IN  /\ Len(border) >= 3
                      /\ Len(border) = Len(curr_shape_points) + 2
                      /\ IsPrefix(curr_shape_points, border)
                      /\ border[Len(border)] = border[1]
               /\ curr_shape_points' = << >> ]_vars

\* a gesture with moves and then a gesture without moves have been completed
C27_Witness ==
    /\ last.op = "release"
    /\ DOMAIN shapes = { 0, 1 }
    /\ Len(shapes[0].border_points) > 3
    /\ Len(shapes[1].border_points) = 3


\* the text is a decimal integer, possibly signed
Numeric(text) ==
    /\ text # << >>
    /\ \A i \in 1..Len(text) :
           \/ text[i] \in { "0", "1", "2", "3", "4", "5", "6", "7", "8", "9" }
           \/ i = 1 /\ text[i] = "-" /\ Len(text) > 1

\* the value of an integer text
NumericValue(text) ==
    IF text[1] = "-" THEN - DigitsValue(Tail(text), 0) ELSE DigitsValue(text, 0)

\* the texts of the last apply are those of integers (the point count may be
\* left empty)
TextsUsable ==
    IF last.pattern = "Bidirectional"
    THEN /\ Numeric(last.texts[1]) /\ Numeric(last.texts[2])
         /\ (last.texts[3] = << >> \/ Numeric(last.texts[3]))
    ELSE last.texts[1] = << >> \/ Numeric(last.texts[1])

\* the last handler was an apply that could not use its inputs: no ROI, no
\* pattern kind, or a text that is no integer
ApplyUnusable ==
    /\ pc = "idle" /\ last.op = "apply"
    /\ \/ IsNone(last.roi)
       \/ last.pattern \notin { "Bidirectional", "Spiral" }
       \/ ~TextsUsable

\* C28: an apply without a ROI, without a pattern kind, or with a spacing or
\* point-count text that is no integer leaves pattern_points and
\* ablation_points of every shape as they were
C28_UnusableApplyChangesNothing ==
    [][ (pc = "idle" /\ ApplyUnusable') => shapes' = shapes ]_vars

\* an apply with a text that is no integer came to a shape holding ablation
\* points
C28_Witness ==
    /\ ApplyUnusable
    /\ ~IsNone(last.roi) /\ last.pattern = "Spiral"
    /\ AppliedShape.ablation_points # << >>


\* the spacing the claim lets a text stand for: its value, or gap when the
\* text is not numeric or the value is below gap
RecoveredSpacing(text) ==
    IF Numeric(text) THEN Larger(NumericValue(text), gap) ELSE gap

\* the point count of a text that is empty or numeric
CountOf(text) == IF text = << >> THEN None ELSE Some(NumericValue(text))

\* a bidirectional apply handler has ended; its point count text is usable
BidirectionalEnded ==
    /\ pc = "idle" /\ last.op = "apply" /\ last.pattern = "Bidirectional"
    /\ (last.texts[3] = << >> \/ Numeric(last.texts[3]))

\* C15 as claimed: whatever the two spacing texts are, the handler is not
\* left by an exception and the pattern is generated, with gap standing for
\* a spacing that is not numeric or not positive
C15_InvalidSpacingClamped ==
    BidirectionalEnded =>
        /\ running
        /\ AppliedShape.ablation_points =
               FreshBidirectional(AppliedShape.border_points,
                                  RecoveredSpacing(last.texts[2]),
                                  RecoveredSpacing(last.texts[1]),
                                  CountOf(last.texts[3]))

\* C15 amended: a bidirectional apply is never left by an exception; with
\* two integer spacing texts the pattern is generated, gap standing for a
\* value below gap; with a spacing text that is no integer ValueError is
\* caught, 'Invalid spacing value' is reported and the shapes stay as they
\* were
C15_InvalidSpacingRecovered ==
    [][ (/\ pc' = "idle" /\ last'.op = "apply" /\ last'.pattern = "Bidirectional"
         /\ (last'.texts[3] = << >> \/ Numeric(last'.texts[3]))) =>
            /\ running'
            /\ IF Numeric(last'.texts[1]) /\ Numeric(last'.texts[2])
               THEN /\ last'.caught = ""
                    /\ shapes'[Val(last'.roi)].ablation_points =
                           FreshBidirectional(shapes[Val(last'.roi)].border_points,
                                              RecoveredSpacing(last'.texts[2]),
                                              RecoveredSpacing(last'.texts[1]),
                                              CountOf(last'.texts[3]))
               ELSE /\ last'.caught = "ValueError"
                    /\ last'.warnings = << "Invalid spacing value" >>
                    /\ shapes' = shapes ]_vars

\* a spacing text that is no integer was applied to a shape holding points
C15_Witness ==
    /\ BidirectionalEnded
    /\ ~Numeric(last.texts[2])
    /\ Len(AppliedShape.ablation_points) > 1

\* C16: when a returned spiral apply selected no sample inside the polygon
\* (the generator on the cleared shape collects no ablation point),
\* ablation_points is the single bounding-box centre and a warning is
\* recorded
C16_SpiralEmptyFallback ==
    (/\ Applied("Spiral")
     /\ FreshSpiral(AppliedShape.border_points, last.n).abl = << >>) =>
        /\ AppliedShape.ablation_points = << Center(AppliedShape.border_points) >>
        /\ last.warnings # << >>

\* max_num_points of a polygon on which the turn loop ends
MaxNumPoints(border) ==
    LET r == boundingRect(border)
        t == CHOOSE u \in ExitTurns(r.width, r.height) : TRUE
    IN  Curve(t, r.width, r.height).arc_length[NumSamples] \div (gap * 1000)

\* the ablation points of a spiral apply that asks for max_num_points
ClampedSpiral ==
    [ b \in { c \in Borders : ExitTurns(boundingRect(c).width,
                                        boundingRect(c).height) # {} } |->
        FreshSpiral(b, Some(MaxNumPoints(b))).abl ] @@ << >>

\* a spiral apply with a point count has ended, returned or not
SpiralEnded ==
    /\ pc = "idle" /\ last.op = "apply" /\ last.pattern = "Spiral"
    /\ last.parsed /\ ~IsNone(last.n)

\* C17: a spiral apply asking for more than max_num_points =
\* total arc length \div gap points warns and produces what an apply asking
\* for max_num_points produces; the ablation points of one spiral apply are
\* never more than min(point count, max_num_points) (none for a negative
\* count)
C17_SpiralCountClamped ==
    SpiralEnded =>
        LET b == AppliedShape.border_points
            n == Val(last.n)
            m == MaxNumPoints(b)
        IN  /\ Len(AppliedShape.ablation_points) <=
                   Larger(0, IF n < m THEN n ELSE m)
            /\ n > m =>
                   /\ HasWarning("num_points greater than max_num_points")
                   /\ last.status = "done" /\ last.raised = ""
                   /\ AppliedShape.ablation_points = ClampedSpiral[b]

\* a spiral apply asked for more points than max_num_points and points were
\* produced
C17_Witness ==
    /\ SpiralEnded
    /\ Val(last.n) > MaxNumPoints(AppliedShape.border_points)
    /\ Len(AppliedShape.ablation_points) > 1

\* C18: on the square (0,0),(100,0),(100,100),(0,100) a spiral apply asking
\* for 50 points leaves exactly 50 ablation points (max_num_points of them
\* when that is less than 50), all inside the square
C18_SquareSpiralFifty ==
    (/\ Applied("Spiral")
     /\ AppliedShape.border_points = Closed(SquareStroke)
     /\ last.n = Some(50)) =>
        LET m == MaxNumPoints(Closed(SquareStroke))
        IN  /\ Len(AppliedShape.ablation_points) = (IF m < 50 THEN m ELSE 50)
            /\ AllInside(AppliedShape.border_points, AppliedShape.ablation_points)

\* C19: when the turn loop of the spiral generator is left, the turn count is
\* at least 4 and max_radius / turns >= gap, with max_radius half the
\* smaller side of the bounding box
C19_TurnsKeepArmsApart ==
    [][ (pc = "spiral_turns" /\ pc' = "idle") =>
            LET r == boundingRect(shapes[call.roi].border_points)
                side == IF r.width < r.height THEN r.width ELSE r.height
            IN  /\ call.num_turns >= 4
                /\ side >= 2 * gap * call.num_turns ]_vars

\* the turn loop has been left and the spiral generator has returned
C19_Witness ==
    /\ pc = "idle" /\ last.op = "apply" /\ last.pattern = "Spiral"
    /\ last.status = "done" /\ last.caught = ""
    /\ AppliedShape.pattern_points # << >>

\* ------------------------------------------------------------------------
\* Properties of the turn selection
\* ------------------------------------------------------------------------
\* C20 as claimed: for one bounding box the chosen turn count does not fall
\* when the gap gets smaller, and for max_radius = 100 (a side of 200) and a
\* gap of 5 at least 21 turns are chosen
C20_TurnsMonotoneInGap ==
    (pc = "turns_chosen") =>
        /\ \A g1 \in TurnGaps :
               g1 < call.gap =>
                   /\ ~IsNone(ChosenTurns(call.side, g1))
                   /\ Val(ChosenTurns(call.side, g1)) >= call.num_turns
        /\ (call.side = 200 /\ call.gap = 5) => call.num_turns >= 21

\* C20 amended: the selection ends exactly when max_radius / 4 >= gap, that
\* is side >= 8 * gap, and then with 4 turns, so for one bounding box every
\* smaller gap gives the same 4 turns (4 for max_radius = 100 and gap 5); a
\* loop that has added a turn is never left
C20_TurnsAlwaysFour ==
    /\ (pc = "turns_chosen") =>
           /\ call.num_turns = 4
           /\ call.side >= 8 * call.gap
           /\ \A g1 \in TurnGaps :
                  g1 < call.gap => ChosenTurns(call.side, g1) = Some(4)
    /\ (pc = "turn_selection" /\ call.num_turns = 4 /\ call.odd = FALSE
        /\ call.side >= 8 * call.gap) => ENABLED TurnChosen
    /\ (pc = "turn_selection" /\ (call.num_turns > 4 \/ call.side < 8 * call.gap)) =>
           ~ENABLED TurnChosen

\* the selection has ended for max_radius = 100 and a gap of 5
C20_Witness ==
    /\ pc = "turns_chosen"
    /\ call.side = 200 /\ call.gap = 5

\* C21: no step changes the border_points of a shape that stays in the
\* collection, and a step changes the outputs of such a shape only when it
\* belongs to an apply on that very shape
C21_BoundaryImmutable ==
    [][ \A id \in DOMAIN shapes \cap DOMAIN shapes' :
            /\ shapes'[id].border_points = shapes[id].border_points
            /\ shapes'[id] # shapes[id] =>
                   (last'.op = "apply" /\ last'.roi = Some(id)) ]_vars

\* a pattern has been applied to one of two shapes of different boundaries
C21_Witness ==
    /\ pc = "idle" /\ last.op = "apply" /\ last.status = "done"
    /\ ~IsNone(last.roi)
    /\ Cardinality(DOMAIN shapes) = 2
    /\ AppliedShape.ablation_points # << >>
    /\ \E id \in DOMAIN shapes :
           /\ Some(id) # last.roi
           /\ shapes[id].border_points # AppliedShape.border_points

\* C29: a delete with ROI k selected removes shape k and nothing else: every
\* other shape stays under its id with its boundary and outputs, and the
\* next id to be assigned stays; a delete with no ROI selected changes
\* nothing
C29_DeleteRemovesSelected ==
    [][ (pc = "idle" /\ last'.op = "delete") =>
            IF IsNone(selected_shape_id)
            THEN UNCHANGED << shapes, curr_shape_id, curr_shape_points, drawing,
                              selected_shape_id, roi_items, roi_index >>
            ELSE /\ Val(selected_shape_id) \in DOMAIN shapes
                 /\ DOMAIN shapes' = DOMAIN shapes \ { Val(selected_shape_id) }
                 /\ \A id \in DOMAIN shapes' : shapes'[id] = shapes[id]
                 /\ curr_shape_id' = curr_shape_id ]_vars

\* the second of two shapes was deleted and the first, which holds ablation
\* points, is left
C29_Witness ==
    /\ last.op = "delete" /\ last.roi = Some(1)
    /\ DOMAIN shapes = { 0 }
    /\ shapes[0].ablation_points # << >>

\* the entries of the dropdown that read 'Shape id+1'
EntriesOf(id) ==
    { i \in 2..Len(roi_items) :
          /\ roi_items[i][1] = "Shape"
          /\ Numeric(roi_items[i][2])
          /\ NumericValue(roi_items[i][2]) = id + 1 }

\* C30: the dropdown holds 'Select ROI' and exactly one entry 'Shape id+1'
\* for each id in the collection; the number of an entry minus 1, as the
\* handlers parse it, is the id of a shape in the collection; the selected
\* shape is the one of the current entry, and an apply works on it
C30_DropdownMatchesShapes ==
    /\ roi_items[1] = SelectRoiText
    /\ Len(roi_items) = Cardinality(DOMAIN shapes) + 1
    /\ \A id \in DOMAIN shapes : Cardinality(EntriesOf(id)) = 1
    /\ \A i \in 2..Len(roi_items) : RoiNumber(roi_items[i]) \in DOMAIN shapes
    /\ roi_index \in 1..Len(roi_items)
    /\ IF roi_index = 1 THEN IsNone(selected_shape_id)
       ELSE /\ ~IsNone(selected_shape_id)
            /\ EntriesOf(Val(selected_shape_id)) = { roi_index }
    /\ (last.op = "apply" /\ ~IsNone(last.roi)) => last.roi = selected_shape_id

\* the first of two shapes was deleted and the entry of the second picked
C30_Witness ==
    /\ DOMAIN shapes = { 1 }
    /\ roi_index = 2
    /\ selected_shape_id = Some(1)

\* ------------------------------------------------------------------------
\* Properties of the ShapeTrace methods called directly
\* ------------------------------------------------------------------------
\* a generator was called on the constructed shape and the call is over
Called == pc = "idle" /\ last.op = "call"

\* C14: a generator called on a shape of fewer than 3 border points signals
\* DegenerateBoundary and adds no point to either output
C14_DegenerateBoundaryRejected ==
    (Called /\ Len(shapes[0].border_points) < 3) =>
        /\ last.raised = "DegenerateBoundary"
        /\ shapes[0].ablation_points = << >>
        /\ shapes[0].pattern_points = << >>
====
